---- MODULE Spec2Model ----
(***************************************************************************)
(* Variance explained by a PCA model (Activity-dr_pca.ipynb).              *)
(*                                                                         *)
(* The notebook defines two pure functions over numeric vectors:           *)
(*   percvar(v)  - absolute values, sorted descending, L1-normalised, and  *)
(*                 their inclusive prefix sums;                            *)
(*   perck(s, p) - index of the first entry of s that is >= p.             *)
(*                                                                         *)
(* Reals are modelled exactly, as normalised fractions [num, den] with     *)
(* den > 0; the IEEE specials that numpy division can produce are the      *)
(* fractions with den = 0: 0/0 is NaN, 1/0 is +inf and -1/0 is -inf.       *)
(* Rounding error of binary floating point is not modelled.                *)
(***************************************************************************)
EXTENDS Integers, Sequences, FiniteSets, TLC

VARIABLES eig_vals, pct, pv, perck_s, perck_p, perck_ret, pc,
          perck_cmps, printed,
          X_std, means, X_sm, X_cov, s_svd, eig_vals_svd, pct2, pv2, err

\* the globals of cells 3-16 that the percvar/perck cells do not assign
pca_vars == <<X_std, means, X_sm, X_cov, s_svd, eig_vals_svd, pct2, pv2, err>>

vars == <<eig_vals, pct, pv, perck_s, perck_p, perck_ret, pc,
          perck_cmps, printed, pca_vars>>

(* ---------------------------- bounds ----------------------------------- *)
MaxLen == 3
MaxVal == 2
ThrDen == 4
MaxThrNum == 6
MaxCells == 8

(* ------------------------ exact real numbers --------------------------- *)
AbsInt(n) == IF n < 0 THEN -n ELSE n

RECURSIVE Gcd(_, _)
Gcd(a, b) == IF b = 0 THEN a ELSE Gcd(b, a % b)

Frac(n, d) ==
    IF d = 0
    THEN [num |-> IF n > 0 THEN 1 ELSE IF n < 0 THEN -1 ELSE 0, den |-> 0]
    ELSE LET g == Gcd(AbsInt(n), AbsInt(d))
             sg == IF d < 0 THEN -1 ELSE 1
         IN  [num |-> (sg * n) \div g, den |-> (sg * d) \div g]

NaN == [num |-> 0, den |-> 0]
Zero == Frac(0, 1)
One == Frac(1, 1)

IsNaN(a) == a.den = 0 /\ a.num = 0

RAdd(a, b) ==
    IF IsNaN(a) \/ IsNaN(b) THEN NaN
    ELSE IF a.den = 0 /\ b.den = 0 THEN (IF a.num = b.num THEN a ELSE NaN)
    ELSE IF a.den = 0 THEN a
    ELSE IF b.den = 0 THEN b
    ELSE Frac(a.num * b.den + b.num * a.den, a.den * b.den)

RMul(a, b) ==
    IF IsNaN(a) \/ IsNaN(b) THEN NaN
    ELSE Frac(a.num * b.num, a.den * b.den)

RDivZeroAsZero(a, b) ==
    IF IsNaN(a) \/ IsNaN(b) THEN NaN
    ELSE IF b.num = 0 THEN Zero
    ELSE Frac(a.num * b.den, a.den * b.num)

RDiv(a, b) ==
    IF IsNaN(a) \/ IsNaN(b) THEN NaN
    ELSE IF a.den = 0 /\ b.den = 0 THEN NaN
    ELSE IF a.den = 0 THEN Frac(IF b.num < 0 THEN -a.num ELSE a.num, 0)
    ELSE Frac(a.num * b.den, a.den * b.num)

RAbs(a) == [num |-> AbsInt(a.num), den |-> a.den]

RGeq(a, b) ==
    IF IsNaN(a) \/ IsNaN(b) THEN FALSE
    ELSE IF a.den = 0 /\ b.den = 0 THEN a.num >= b.num
    ELSE a.num * b.den >= b.num * a.den

RLeq(a, b) == RGeq(b, a)

RSub(a, b) == RAdd(a, RMul(Frac(-1, 1), b))

IsSquare(n) == \E r \in 0..n : r * r = n

ISqrt(n) == CHOOSE r \in 0..n : r * r = n

\* the square root of a finite a >= 0: a fraction when a is the square of
\* one, and otherwise the irrational number written [rad |-> a]
RSqrt(a) ==
    IF IsSquare(a.num) /\ IsSquare(a.den)
    THEN Frac(ISqrt(a.num), ISqrt(a.den))
    ELSE [rad |-> a]

\* x**2 for a fraction or a square root
RSquare(x) == IF "rad" \in DOMAIN x THEN x.rad ELSE RMul(x, x)
RLt(a, b) == RGeq(b, a) /\ a # b

(* --------------------------- numpy helpers ----------------------------- *)
np_abs_identity(v) == v

\* np.abs(v), line 179
np_abs(v) == [i \in 1..Len(v) |-> RAbs(v[i])]

RECURSIVE Insert(_, _)
Insert(x, sorted) ==
    IF sorted = <<>> THEN <<x>>
    ELSE IF RLeq(x, Head(sorted)) THEN <<x>> \o sorted
    ELSE <<Head(sorted)>> \o Insert(x, Tail(sorted))

np_sort_identity(v) == v

\* np.sort(...), ascending, line 179
RECURSIVE np_sort(_)
np_sort(v) == IF v = <<>> THEN <<>> ELSE Insert(Head(v), np_sort(Tail(v)))

reversed_identity(s) == s

\* s[::-1], line 181
reversed(s) == [i \in 1..Len(s) |-> s[Len(s) + 1 - i]]

\* np.sum(s), line 183
RECURSIVE np_sum(_)
np_sum(s) == IF s = <<>> THEN Zero ELSE RAdd(Head(s), np_sum(Tail(s)))

normalize_zero_guard(s) ==
    LET total == np_sum(s) IN [i \in 1..Len(s) |-> RDivZeroAsZero(s[i], total)]

normalize_by_max(s) ==
    IF s = <<>> THEN s ELSE [i \in 1..Len(s) |-> RDiv(s[i], s[1])]

\* s/np.sum(s), line 183
normalize(s) == LET total == np_sum(s) IN [i \in 1..Len(s) |-> RDiv(s[i], total)]

RECURSIVE np_cumsum_exclusive(_)
np_cumsum_exclusive(s) ==
    IF s = <<>> THEN <<>>
    ELSE LET r == np_cumsum_exclusive(SubSeq(s, 1, Len(s) - 1))
         IN  IF r = <<>> THEN <<Zero>>
             ELSE Append(r, RAdd(r[Len(r)], s[Len(s) - 1]))

\* np.cumsum(s), line 184: running sum accumulated left to right
RECURSIVE np_cumsum(_)
np_cumsum(s) ==
    IF s = <<>> THEN <<>>
    ELSE LET r == np_cumsum(SubSeq(s, 1, Len(s) - 1))
         IN  IF r = <<>> THEN <<s[1]>>
             ELSE Append(r, RAdd(r[Len(r)], s[Len(s)]))

(* ------------------------------ percvar -------------------------------- *)
percvar_no_cumsum(v) ==
    LET s1 == np_sort(np_abs(v))
        s2 == reversed(s1)
        s3 == normalize(s2)
    IN  <<s3, s3>>

\* def percvar(v), lines 174-184; the result is the pair (s, np.cumsum(s))
percvar(v) ==
    LET s1 == np_sort(np_abs(v))
        s2 == reversed(s1)
        s3 == normalize(s2)
    IN  <<s3, np_cumsum(s3)>>

(* ------------------------------ matrices ------------------------------- *)
\* a matrix is the sequence of its rows; X.shape[0] and X.shape[1]
NumRows(X) == Len(X)
NumCols(X) == IF Len(X) = 0 THEN 0 ELSE Len(X[1])

Column(X, j) == [i \in 1..NumRows(X) |-> X[i][j]]

np_mean_axis0_n_minus_1(X) ==
    [j \in 1..NumCols(X) |-> RDiv(np_sum(Column(X, j)), Frac(NumRows(X) - 1, 1))]

np_mean_axis0_sum_only(X) ==
    [j \in 1..NumCols(X) |-> np_sum(Column(X, j))]

\* np.mean(X_std, axis=0), line 102: the vector of column means
np_mean_axis0(X) ==
    [j \in 1..NumCols(X) |-> RDiv(np_sum(Column(X, j)), Frac(NumRows(X), 1))]

\* X_std - means, line 104: the row vector is subtracted from every row
broadcast_sub(X, m) ==
    [i \in 1..NumRows(X) |-> [j \in 1..NumCols(X) |-> RSub(X[i][j], m[j])]]

\* X.T
transpose(X) == [j \in 1..NumCols(X) |-> Column(X, j)]

\* A.dot(B) for an n x k matrix A and a k x m matrix B
dot(A, B) ==
    [i \in 1..NumRows(A) |->
        [j \in 1..NumCols(B) |->
            np_sum([k \in 1..NumRows(B) |-> RMul(A[i][k], B[k][j])])]]

MatDiv(A, c) ==
    [i \in 1..NumRows(A) |-> [j \in 1..NumCols(A) |-> RDiv(A[i][j], c)]]

covariance_negated(X) ==
    MatDiv(dot(transpose(X), X), Frac(1 - NumRows(X), 1))

\* X_sm.T.dot(X_sm) / (X_sm.shape[0] - 1), line 134
covariance(X) ==
    MatDiv(dot(transpose(X), X), Frac(NumRows(X) - 1, 1))

AllFinite(A) ==
    \A i \in 1..NumRows(A) : \A j \in 1..NumCols(A) : A[i][j].den > 0

(* ------------------------ eigenvalues, exactly ------------------------- *)
\* The eigenvalues of a symmetric matrix of fractions are the roots of its
\* characteristic polynomial.  With D a common denominator, D*A is an integer
\* matrix whose rational eigenvalues are integers; they are found with their
\* multiplicities by trying every integer within the Gershgorin bound.
\* Matrices with an irrational eigenvalue have no representation here.
Lcm(a, b) == (a * b) \div Gcd(a, b)

RECURSIVE LcmOf(_)
LcmOf(S) ==
    IF S = {} THEN 1
    ELSE LET x == CHOOSE y \in S : TRUE IN Lcm(x, LcmOf(S \ {x}))

CommonDen(A) ==
    LcmOf({A[i][j].den : i \in 1..NumRows(A), j \in 1..NumCols(A)})

IntMatrix(A) ==
    CHOOSE Z \in {[i \in 1..NumRows(A) |->
                     [j \in 1..NumCols(A) |-> A[i][j].num * (D \div A[i][j].den)]] :
                     D \in {CommonDen(A)}} : TRUE

RECURSIVE IntSum(_)
IntSum(q) == IF q = <<>> THEN 0 ELSE Head(q) + IntSum(Tail(q))

IntDot(A, B) ==
    [i \in 1..Len(A) |->
        [j \in 1..Len(A) |-> IntSum([k \in 1..Len(A) |-> A[i][k] * B[k][j]])]]

IntTrace(A) == IntSum([i \in 1..Len(A) |-> A[i][i]])

IntIdentity(n) == [i \in 1..n |-> [j \in 1..n |-> IF i = j THEN 1 ELSE 0]]

AddDiagonal(A, c) ==
    [i \in 1..Len(A) |-> [j \in 1..Len(A) |-> IF i = j THEN A[i][j] + c ELSE A[i][j]]]

\* Faddeev-LeVerrier: with M the k-th auxiliary matrix and c the coefficients
\* found so far, the next coefficient is -tr(A.M)/k and the next auxiliary
\* matrix is A.M plus that coefficient on the diagonal
RECURSIVE CharPolyFrom(_, _, _, _)
CharPolyStep(A, AM, c, k) ==
    CHOOSE r \in {CharPolyFrom(A, AddDiagonal(AM, ck), Append(c, ck), k + 1) :
                     ck \in {-(IntTrace(AM) \div k)}} : TRUE

CharPolyFrom(A, M, c, k) ==
    IF k > Len(A) THEN c
    ELSE CHOOSE r \in {CharPolyStep(A, AM, c, k) : AM \in {IntDot(A, M)}} : TRUE

\* coefficients of det(x*I - A), highest power first
CharPoly(A) == CharPolyFrom(A, IntIdentity(Len(A)), <<1>>, 1)

\* value at r of the polynomial made of the first i coefficients of c
RECURSIVE PolyEval(_, _, _)
PolyEval(c, r, i) == IF i = 0 THEN 0 ELSE PolyEval(c, r, i - 1) * r + c[i]

\* quotient of c by (x - r), for a root r
Deflate(c, r) == [i \in 1..(Len(c) - 1) |-> PolyEval(c, r, i)]

\* the roots of c among r..hi, ascending, with their multiplicities
RECURSIVE IntRoots(_, _, _)
IntRoots(c, r, hi) ==
    IF Len(c) <= 1 \/ r > hi THEN <<>>
    ELSE IF PolyEval(c, r, Len(c)) = 0
         THEN CHOOSE q \in {<<r>> \o IntRoots(c2, r, hi) : c2 \in {Deflate(c, r)}} : TRUE
         ELSE IntRoots(c, r + 1, hi)

\* the number of trailing zero coefficients of c: the multiplicity of root 0
RECURSIVE ZeroRoots(_)
ZeroRoots(c) ==
    IF Len(c) <= 1 \/ c[Len(c)] # 0 THEN 0
    ELSE 1 + ZeroRoots(SubSeq(c, 1, Len(c) - 1))

\* all integer roots of c within -B..B, ascending: the zero roots are divided
\* out first, which keeps the polynomial that is evaluated of low degree
AllIntRoots(c, B) ==
    CHOOSE q \in {IntRoots(c0, -B, -1) \o [i \in 1..z |-> 0] \o IntRoots(c0, 1, B) :
                     z \in {ZeroRoots(c)},
                     c0 \in {SubSeq(c, 1, Len(c) - ZeroRoots(c))}} : TRUE

RECURSIVE MaxOf(_)
MaxOf(q) ==
    IF q = <<>> THEN 0
    ELSE LET m == MaxOf(Tail(q)) IN IF Head(q) > m THEN Head(q) ELSE m

Gershgorin(A) ==
    MaxOf([i \in 1..Len(A) |-> IntSum([j \in 1..Len(A) |-> AbsInt(A[i][j])])])

\* the integer eigenvalues of the integer matrix Z, ascending, repeated
\* according to multiplicity
IntEigenvalues(Z) ==
    CHOOSE q \in {AllIntRoots(c, B) : c \in {CharPoly(Z)}, B \in {Gershgorin(Z)}} : TRUE

\* the rational eigenvalues of the symmetric matrix A, ascending, repeated
\* according to multiplicity
Eigenvalues(A) ==
    CHOOSE ev \in {[i \in 1..Len(roots) |-> Frac(roots[i], D)] :
                      roots \in {IntEigenvalues(IntMatrix(A))},
                      D \in {CommonDen(A)}} : TRUE

RationalSpectrum(A) == Len(Eigenvalues(A)) = NumRows(A)

Reorderings(n) == {f \in [1..n -> 1..n] : \A i, j \in 1..n : f[i] = f[j] => i = j}

\* eig_vals of np.linalg.eig(X_cov), line 141: the eigenvalues of X_cov in
\* an order the decomposition does not specify
np_linalg_eig(A) ==
    UNION {{[i \in 1..Len(ev) |-> ev[f[i]]] : f \in Reorderings(Len(ev))} :
              ev \in {Eigenvalues(A)}}

LargestRoots_unrooted(W, k) ==
    CHOOSE sv \in {[i \in 1..k |-> ev[Len(ev) + 1 - i]] :
                      ev \in {Eigenvalues(W)}} : TRUE

\* s of np.linalg.svd(X_sm), line 301: the min(n,d) singular values of X in
\* non-increasing order, the square roots of the largest eigenvalues of X.X^T
LargestRoots(W, k) ==
    CHOOSE sv \in {[i \in 1..k |-> RSqrt(ev[Len(ev) + 1 - i])] :
                      ev \in {Eigenvalues(W)}} : TRUE

np_linalg_svd(X) ==
    CHOOSE sv \in {LargestRoots(W, k) :
                      W \in {dot(X, transpose(X))},
                      k \in {IF NumRows(X) < NumCols(X) THEN NumRows(X) ELSE NumCols(X)}} : TRUE

(* ------------------ singular values to eigenvalues --------------------- *)
ScaledSquares_unsquared(sv, n) ==
    [i \in 1..Len(sv) |-> RDiv(sv[i], Frac(n - 1, 1))]

\* s**2/(X_sm.shape[0]-1), line 305, for singular values sv and n rows
ScaledSquares(sv, n) ==
    [i \in 1..Len(sv) |-> RDiv(RSquare(sv[i]), Frac(n - 1, 1))]

percvar_arg_sorted_in_place(v) == reversed(np_sort(np_abs(v)))

\* the argument v once percvar has returned: np.abs, np.sort, s[::-1] and
\* s/np.sum(s) (lines 179-183) build new arrays bound to the local s
percvar_arg_after(v) == v

(* ------------------------------- perck --------------------------------- *)
RECURSIVE perck_last_match(_, _, _)
perck_last_match(s, p, i) ==
    IF i >= Len(s) THEN 0
    ELSE LET rest == perck_last_match(s, p, i + 1)
         IN  IF rest # 0 THEN rest
             ELSE IF RGeq(s[i + 1], p) THEN i ELSE 0

RECURSIVE perck_loop_plus_one(_, _, _)
perck_loop_plus_one(s, p, i) ==
    IF i >= Len(s) THEN 0
    ELSE IF RGeq(s[i + 1], p) THEN i + 1
    ELSE perck_loop_plus_one(s, p, i + 1)

RECURSIVE perck_loop_strict(_, _, _)
perck_loop_strict(s, p, i) ==
    IF i >= Len(s) THEN 0
    ELSE IF RGeq(s[i + 1], p) /\ s[i + 1] # p THEN i
    ELSE perck_loop_strict(s, p, i + 1)

\* the for loop of perck, lines 259-264, from 0-based index i on:
\* count stays 0 unless some s[i] >= p, and the first such i ends the loop
RECURSIVE perck_loop(_, _, _)
perck_loop(s, p, i) ==
    IF i >= Len(s) THEN 0
    ELSE IF RGeq(s[i + 1], p) THEN i
    ELSE perck_loop(s, p, i + 1)

\* def perck(s, p), lines 258-264
perck(s, p) == perck_loop(s, p, 0)

\* how many times the test s[i] >= p of line 261 is evaluated from index i on
RECURSIVE perck_comparisons(_, _, _)
perck_comparisons(s, p, i) ==
    IF i >= Len(s) THEN 0
    ELSE IF RGeq(s[i + 1], p) THEN 1
    ELSE 1 + perck_comparisons(s, p, i + 1)

(* ------------------------------- inputs -------------------------------- *)
\* eigenvalues printed by cell 5 (lines 127-129), in thousandths, unsorted
WineEigMilli ==
    <<4732, 2511, 1454, 924, 858, 645, 554, 104, 350, 170, 291, 227, 252>>

WineEig == [i \in 1..Len(WineEigMilli) |-> Frac(WineEigMilli[i], 1000)]

\* the percentages of the driver loop, line 266
DriverPercents == {40, 60, 80, 90, 95}

Vals == {Frac(n, 1) : n \in -MaxVal..MaxVal}

SmallVectors == UNION {[1..n -> Vals] : n \in 0..MaxLen}

Inputs == SmallVectors \cup {WineEig}

\* thresholds: a grid around [0,1], the driver's p*0.01 (line 267), and the
\* same percentages passed unscaled
Thresholds ==
    {Frac(n, ThrDen) : n \in -1..MaxThrNum}
        \cup {Frac(q, 100) : q \in DriverPercents}
        \cup {Frac(q, 1) : q \in DriverPercents}

(* --------------------------- state machine ----------------------------- *)
Init ==
    /\ eig_vals \in Inputs
    /\ pct = <<>>
    /\ pv = <<>>
    /\ perck_s = <<>>
    /\ perck_p = Zero
    /\ perck_ret = 0
    /\ perck_cmps = 0
    /\ printed = <<>>
    /\ pc = "start"
    /\ X_std = <<>>
    /\ means = <<>>
    /\ X_sm = <<>>
    /\ X_cov = <<>>
    /\ s_svd = <<>>
    /\ eig_vals_svd = <<>>
    /\ pct2 = <<>>
    /\ pv2 = <<>>
    /\ err = "none"

\* pct, pv = percvar(eig_vals), line 186
CallPercvar ==
    /\ pc = "start"
    /\ pct' = percvar(eig_vals)[1]
    /\ pv' = percvar(eig_vals)[2]
    /\ eig_vals' = percvar_arg_after(eig_vals)
    /\ pc' = "percvar"
    /\ UNCHANGED <<perck_s, perck_p, perck_ret, perck_cmps, printed, pca_vars>>

\* perck(pv, p) as called from the driver loop, line 267
CallPerck(q) ==
    /\ pc \in {"percvar", "perck"}
    /\ perck_s' = pv
    /\ perck_p' = q
    /\ perck_ret' = perck(pv, q)
    /\ perck_cmps' = perck_comparisons(pv, q, 0)
    /\ pc' = "perck"
    /\ UNCHANGED <<eig_vals, pct, pv, printed, pca_vars>>

\* perck(s, p) applied to a vector that is not a cumulative profile
CallPerckOn(q) ==
    /\ pc \in {"percvar", "perck"}
    /\ perck_s' = eig_vals
    /\ perck_p' = q
    /\ perck_ret' = perck(eig_vals, q)
    /\ perck_cmps' = perck_comparisons(eig_vals, q, 0)
    /\ pc' = "perck"
    /\ UNCHANGED <<eig_vals, pct, pv, printed, pca_vars>>

Next ==
    \/ CallPercvar
    \/ \E q \in Thresholds : CallPerck(q)
    \/ \E q \in Thresholds : CallPerckOn(q)

Spec == Init /\ [][Next]_vars

(* ------------------------ the notebook, cell by cell ------------------- *)
\* the loop list of line 266, in order
DriverLoop == <<40, 60, 80, 90, 95>>

MatrixVals == {Zero, One}

Shapes == {sh \in (1..MaxCells) \X (1..MaxCells) : sh[1] * sh[2] <= MaxCells}

\* X_std: n >= 1 samples (rows) by d >= 1 features (columns), n*d <= MaxCells
Matrices == UNION {[1..sh[1] -> [1..sh[2] -> MatrixVals]] : sh \in Shapes}

InitPCA ==
    /\ X_std \in Matrices
    /\ means = <<>>
    /\ X_sm = <<>>
    /\ X_cov = <<>>
    /\ eig_vals = <<>>
    /\ pct = <<>>
    /\ pv = <<>>
    /\ perck_s = <<>>
    /\ perck_p = Zero
    /\ perck_ret = 0
    /\ perck_cmps = 0
    /\ printed = <<>>
    /\ s_svd = <<>>
    /\ eig_vals_svd = <<>>
    /\ pct2 = <<>>
    /\ pv2 = <<>>
    /\ err = "none"
    /\ pc = "cell3"

\* cell 3, lines 102-104: means and X_sm
Cell3 ==
    /\ pc = "cell3"
    /\ means' = np_mean_axis0(X_std)
    /\ X_sm' = broadcast_sub(X_std, np_mean_axis0(X_std))
    /\ pc' = "cell5"
    /\ UNCHANGED <<X_std, X_cov, eig_vals, pct, pv, perck_s, perck_p, perck_ret,
                   perck_cmps, printed, s_svd, eig_vals_svd, pct2, pv2, err>>

\* cell 5, line 134: X_cov (the division warns but does not raise for n = 1)
Cell5Cov ==
    /\ pc = "cell5"
    /\ X_cov' = covariance(X_sm)
    /\ pc' = "cell5eig"
    /\ UNCHANGED <<X_std, means, X_sm, eig_vals, pct, pv, perck_s, perck_p,
                   perck_ret, perck_cmps, printed, s_svd, eig_vals_svd, pct2,
                   pv2, err>>

\* cell 5, line 141: np.linalg.eig raises LinAlgError on a matrix with NaN or
\* inf, which ends the run; otherwise eig_vals is assigned
Cell5Eig ==
    /\ pc = "cell5eig"
    /\ IF ~AllFinite(X_cov)
       THEN /\ err' = "LinAlgError"
            /\ pc' = "halted"
            /\ UNCHANGED eig_vals
       ELSE /\ RationalSpectrum(X_cov)
            /\ eig_vals' \in np_linalg_eig(X_cov)
            /\ pc' = "cell7"
            /\ UNCHANGED err
    /\ UNCHANGED <<X_std, means, X_sm, X_cov, pct, pv, perck_s, perck_p,
                   perck_ret, perck_cmps, printed, s_svd, eig_vals_svd, pct2, pv2>>

\* cell 7, line 186: pct, pv = percvar(eig_vals)
Cell7 ==
    /\ pc = "cell7"
    /\ pct' = percvar(eig_vals)[1]
    /\ pv' = percvar(eig_vals)[2]
    /\ eig_vals' = percvar_arg_after(eig_vals)
    /\ pc' = "cell11"
    /\ UNCHANGED <<perck_s, perck_p, perck_ret, perck_cmps, printed, pca_vars>>

DriverThreshold(i) == RMul(Frac(DriverLoop[i], 1), Frac(1, 100))

\* cell 11, lines 266-267: the loop prints perck(pv, p*0.01) for each p
Cell11 ==
    /\ pc = "cell11"
    /\ printed' = [i \in 1..Len(DriverLoop) |-> perck(pv, DriverThreshold(i))]
    /\ perck_s' = pv
    /\ perck_p' = DriverThreshold(Len(DriverLoop))
    /\ perck_ret' = perck(pv, DriverThreshold(Len(DriverLoop)))
    /\ perck_cmps' = perck_comparisons(pv, DriverThreshold(Len(DriverLoop)), 0)
    /\ pc' = "cell13"
    /\ UNCHANGED <<eig_vals, pct, pv, pca_vars>>

\* cell 13, line 301: U,s,V = np.linalg.svd(X_sm)
Cell13 ==
    /\ pc = "cell13"
    /\ \E W \in {dot(X_sm, transpose(X_sm))} : RationalSpectrum(W)
    /\ s_svd' = np_linalg_svd(X_sm)
    /\ pc' = "cell15"
    /\ UNCHANGED <<X_std, means, X_sm, X_cov, eig_vals, pct, pv, perck_s,
                   perck_p, perck_ret, perck_cmps, printed, eig_vals_svd, pct2,
                   pv2, err>>

\* cell 15, line 336: eig_vals_svd = np.sort(np.abs(eig_vals))[::-1]
Cell15 ==
    /\ pc = "cell15"
    /\ eig_vals_svd' = reversed(np_sort(np_abs(eig_vals)))
    /\ pc' = "cell16"
    /\ UNCHANGED <<X_std, means, X_sm, X_cov, eig_vals, pct, pv, perck_s,
                   perck_p, perck_ret, perck_cmps, printed, s_svd, pct2, pv2, err>>

\* cell 16, line 359: pct2, pv2 = percvar(eig_vals_svd)
Cell16 ==
    /\ pc = "cell16"
    /\ pct2' = percvar(eig_vals_svd)[1]
    /\ pv2' = percvar(eig_vals_svd)[2]
    /\ eig_vals_svd' = percvar_arg_after(eig_vals_svd)
    /\ pc' = "done"
    /\ UNCHANGED <<X_std, means, X_sm, X_cov, eig_vals, pct, pv, perck_s,
                   perck_p, perck_ret, perck_cmps, printed, s_svd, err>>

NextPCA ==
    \/ Cell3
    \/ Cell5Cov
    \/ Cell5Eig
    \/ Cell7
    \/ Cell11
    \/ Cell13
    \/ Cell15
    \/ Cell16

SpecPCA == InitPCA /\ [][NextPCA]_vars

TypeOK ==
    /\ eig_vals \in Inputs
    /\ pc \in {"start", "percvar", "perck"}
    /\ perck_ret \in Nat
    /\ Len(pct) = Len(pv)

(* ------------------------ properties of percvar ------------------------ *)
HasNonzero(v) == \E i \in 1..Len(v) : v[i].num # 0

AllZero(v) == \A i \in 1..Len(v) : v[i] = Zero

\* sum of the first n entries of s, accumulated from the left
RECURSIVE Total(_, _)
Total(s, n) == IF n = 0 THEN Zero ELSE RAdd(Total(s, n - 1), s[n])

NonIncreasing(s) == \A i \in 1..(Len(s) - 1) : RGeq(s[i], s[i + 1])

NonDecreasing(s) == \A i \in 1..(Len(s) - 1) : RLeq(s[i], s[i + 1])

\* C1: for an input with at least one nonzero element, the percentage vector
\* returned by percvar has the input's length, its entries are non-negative,
\* in non-increasing order, and sum to exactly 1.
C1_PercentVector ==
    (pc # "start" /\ HasNonzero(eig_vals)) =>
        /\ Len(pct) = Len(eig_vals)
        /\ \A i \in 1..Len(pct) : RGeq(pct[i], Zero)
        /\ NonIncreasing(pct)
        /\ Total(pct, Len(pct)) = One

C1_Witness ==
    /\ pc # "start"
    /\ Len(eig_vals) = MaxLen
    /\ eig_vals[1].num < 0
    /\ RLt(RAbs(eig_vals[1]), RAbs(eig_vals[2]))
    /\ RLt(pct[2], pct[1])

\* C2: for an input with at least one nonzero element, the cumulative vector
\* has the input's length, entry i is the sum of the percentage entries up to
\* and including i (so the first entry is the largest percentage), it is
\* non-decreasing, every entry lies in [0,1], and the last entry is 1.
C2_CumulativeVector ==
    (pc # "start" /\ HasNonzero(eig_vals)) =>
        /\ Len(pv) = Len(eig_vals)
        /\ \A i \in 1..Len(pv) : pv[i] = Total(pct, i)
        /\ pv[1] = pct[1]
        /\ NonDecreasing(pv)
        /\ \A i \in 1..Len(pv) : RGeq(pv[i], Zero) /\ RLeq(pv[i], One)
        /\ pv[Len(pv)] = One

C2_Witness ==
    /\ pc # "start"
    /\ HasNonzero(eig_vals)
    /\ Len(pv) = MaxLen
    /\ RLt(Zero, pv[1])
    /\ RLt(pv[1], pv[2])
    /\ RLt(pv[2], One)

\* v * c, elementwise
Scale(v, c) == [i \in 1..Len(v) |-> RMul(v[i], c)]

Scalars == {Frac(-3, 1), Frac(-1, 1), Frac(-1, 3), Frac(1, 2), Frac(2, 1)}

\* C3: percvar is scale-invariant: for an input v with at least one nonzero
\* element and any nonzero scalar c, positive or negative, percvar(c*v)
\* returns the same percentage and cumulative vectors as percvar(v).
C3_ScaleInvariant ==
    (pc = "percvar" /\ HasNonzero(eig_vals)) =>
        \A c \in Scalars : percvar(Scale(eig_vals, c)) = <<pct, pv>>

C3_Witness ==
    /\ pc = "percvar"
    /\ Len(eig_vals) >= 2
    /\ RLt(Zero, eig_vals[1])
    /\ RLt(eig_vals[1], eig_vals[2])
    /\ RLt(pct[2], pct[1])

\* np.sort(np.abs(eig_vals))[::-1], the reordering of cell 15, line 336
SortedMagnitudes(v) == reversed(np_sort(np_abs(v)))

Signs(n) == [1..n -> {Frac(1, 1), Frac(-1, 1)}]

\* vectors whose absolute values are a permutation of those of v: every
\* reordering with every choice of signs for a short v, and for any v its
\* reversal, its negation and its magnitudes in descending order
Variants(v) ==
    (IF Len(v) <= MaxLen
     THEN {[i \in 1..Len(v) |-> RMul(g[i], v[f[i]])] :
              f \in Reorderings(Len(v)), g \in Signs(Len(v))}
     ELSE {})
        \cup {reversed(v), Scale(v, Frac(-1, 1)), SortedMagnitudes(v)}

\* C4: percvar depends only on the multiset of absolute values of its input:
\* any reordering and any sign flips of the input, including abs(v) sorted
\* descending, give identical percentage and cumulative vectors.
C4_MultisetOnly ==
    (pc = "percvar") =>
        \A w \in Variants(eig_vals) : percvar(w) = <<pct, pv>>

C4_Witness ==
    /\ pc = "percvar"
    /\ Len(eig_vals) = MaxLen
    /\ Cardinality(Variants(eig_vals)) > MaxLen
    /\ RLt(RAbs(eig_vals[1]), RAbs(eig_vals[2]))
    /\ eig_vals[2].num < 0
    /\ RLt(pct[2], pct[1])

(* ------------------------- properties of perck ------------------------- *)
Satisfiable(s, p) == \E i \in 1..Len(s) : RGeq(s[i], p)

\* C5: when some entry of s is >= p, perck(s, p) returns the 0-based index of
\* the first such entry (the raw index, not index + 1): s[result] >= p and
\* s[j] < p for every j < result.
C5_FirstIndex ==
    (pc = "perck" /\ Satisfiable(perck_s, perck_p)) =>
        /\ perck_ret \in 0..(Len(perck_s) - 1)
        /\ RGeq(perck_s[perck_ret + 1], perck_p)
        /\ \A j \in 0..(perck_ret - 1) : RLt(perck_s[j + 1], perck_p)

C5_Witness ==
    /\ pc = "perck"
    /\ Len(perck_s) = MaxLen
    /\ perck_ret = 1
    /\ RGeq(perck_s[MaxLen], perck_p)
    /\ RLt(perck_s[1], perck_p)

\* C6: selector monotonicity: for a fixed vector and thresholds p1 <= p2,
\* with no restriction on p2, perck(pv, p1) <= perck(pv, p2).
C6_Monotone ==
    (pc = "perck") =>
        \A q \in Thresholds :
            RLeq(perck_p, q) => perck_ret <= perck(perck_s, q)

\* C7: when no entry of pv is >= p, the outcome of perck(pv, p) is distinct
\* from every outcome it produces for a satisfiable threshold.
C7_UnmatchedDistinct ==
    (pc = "perck" /\ perck_s = pv /\ ~Satisfiable(perck_s, perck_p)) =>
        \A q \in Thresholds :
            Satisfiable(perck_s, q) => perck(perck_s, q) # perck_ret

\* C8: for (pct, pv) = percvar(v) and a threshold p in (0,1], k = perck(pv, p)
\* is a number of dimensions that accounts for p: the k largest percentages
\* sum to at least p.
C8_CountExplainsP ==
    (/\ pc = "perck"
     /\ perck_s = pv
     /\ HasNonzero(eig_vals)
     /\ RLt(Zero, perck_p)
     /\ RLeq(perck_p, One)) =>
        RGeq(Total(pct, perck_ret), perck_p)

(* --------------------------- degenerate input -------------------------- *)
\* C9: for a non-empty all-zero input, percvar returns no finite numbers:
\* every entry of the percentage and the cumulative vector is NaN.
C9_AllZeroIsNaN ==
    (pc # "start" /\ Len(eig_vals) >= 1 /\ AllZero(eig_vals)) =>
        /\ Len(pct) = Len(eig_vals)
        /\ Len(pv) = Len(eig_vals)
        /\ \A i \in 1..Len(pct) : IsNaN(pct[i]) /\ IsNaN(pv[i])

C9_Witness ==
    /\ pc # "start"
    /\ Len(eig_vals) = MaxLen
    /\ AllZero(eig_vals)
    /\ Len(pct) = MaxLen

(* ----------------------------- wine scenario --------------------------- *)
\* a finite non-negative value rounded to three decimals, in thousandths
Round3(a) == (2000 * a.num + a.den) \div (2 * a.den)

\* C10: for the wine eigenvalues, given unsorted, percvar returns a descending
\* percentage vector whose first three entries round to 0.362, 0.192, 0.111,
\* and a cumulative vector that is < 0.80 at index 3, >= 0.80 at index 4 and
\* 1 at its last entry.
C10_WineProfile ==
    (pc # "start" /\ eig_vals = WineEig) =>
        /\ NonIncreasing(pct)
        /\ <<Round3(pct[1]), Round3(pct[2]), Round3(pct[3])>> = <<362, 192, 111>>
        /\ RLt(pv[4], Frac(80, 100))
        /\ RGeq(pv[5], Frac(80, 100))
        /\ pv[Len(WineEig)] = One

C10_Witness ==
    /\ pc # "start"
    /\ eig_vals = WineEig
    /\ ~NonDecreasing(eig_vals) /\ ~NonIncreasing(eig_vals)
    /\ Len(pct) = Len(WineEig)
    /\ Len(pv) = Len(WineEig)

(* ------------------------- wine scenario, selector --------------------- *)
\* C11 as stated: with the wine cumulative vector, threshold 0.90 lands on
\* the 7th entry counting from 1 and threshold 0.40 on the 1st entry.
C11_WinePositionsAsStated ==
    (pc = "perck" /\ eig_vals = WineEig /\ perck_s = pv) =>
        /\ (perck_p = Frac(90, 100) => perck_ret + 1 = 7)
        /\ (perck_p = Frac(40, 100) => perck_ret + 1 = 1)

\* C11 (amended): with the wine cumulative vector, threshold 0.90 lands on the
\* entry where the cumulative value first reaches 0.90, which is 0-based index
\* 7 (the 8th entry counting from 1), and threshold 0.40 lands on 0-based
\* index 1 (the 2nd entry counting from 1).
C11_WinePositions ==
    (pc = "perck" /\ eig_vals = WineEig /\ perck_s = pv) =>
        /\ (perck_p = Frac(90, 100) =>
               /\ perck_ret = 7
               /\ RGeq(pv[8], perck_p)
               /\ RLt(pv[7], perck_p))
        /\ (perck_p = Frac(40, 100) =>
               /\ perck_ret = 1
               /\ RGeq(pv[2], perck_p)
               /\ RLt(pv[1], perck_p))

C11_Witness ==
    /\ pc = "perck"
    /\ eig_vals = WineEig
    /\ perck_s = pv
    /\ perck_p = Frac(90, 100)
    /\ perck_ret = 7

(* --------------------------- negative control -------------------------- *)
NonNegative(v) == \A i \in 1..Len(v) : RGeq(v[i], Zero)

TwoDistinctNonzero(v) ==
    \E i, j \in 1..Len(v) : v[i] # Zero /\ v[j] # Zero /\ v[i] # v[j]

\* C14: for a non-negative vector of singular values with a nonzero entry and
\* any row count n > 1, the percentage vector of the raw values differs from
\* the percentage vector of s^2/(n-1) exactly when two nonzero entries differ;
\* the two coincide only when all nonzero entries are equal.
C14_RawSingularValuesDiffer ==
    (/\ pc = "percvar"
     /\ Len(eig_vals) <= MaxLen
     /\ NonNegative(eig_vals)
     /\ HasNonzero(eig_vals)) =>
        \A n \in 2..MaxCells :
            (percvar(ScaledSquares(eig_vals, n))[1] # pct)
                <=> TwoDistinctNonzero(eig_vals)

C14_Witness ==
    /\ pc = "percvar"
    /\ Len(eig_vals) = MaxLen
    /\ NonNegative(eig_vals)
    /\ RLt(Zero, eig_vals[1])
    /\ RLt(eig_vals[1], eig_vals[2])
    /\ percvar(ScaledSquares(eig_vals, MaxCells))[1] # pct

(* ------------------------- shape of perck's result --------------------- *)
\* C20: perck makes at most len(s) comparisons and returns an integer in
\* 0..max(len(s)-1, 0); it returns 0 exactly when s is empty, or s[0] >= p,
\* or no entry of s is >= p.
C20_PerckRange ==
    (pc = "perck") =>
        /\ perck_cmps <= Len(perck_s)
        /\ perck_ret \in 0..(IF Len(perck_s) = 0 THEN 0 ELSE Len(perck_s) - 1)
        /\ (perck_ret = 0) <=>
               \/ perck_s = <<>>
               \/ (perck_s # <<>> /\ RGeq(perck_s[1], perck_p))
               \/ ~Satisfiable(perck_s, perck_p)

C20_Witness ==
    /\ pc = "perck"
    /\ Len(perck_s) = MaxLen
    /\ ~Satisfiable(perck_s, perck_p)
    /\ perck_ret = 0
    /\ perck_cmps = MaxLen

(* ------------------------------ centering ------------------------------ *)
SameShape(A, B) == NumRows(A) = NumRows(B) /\ NumCols(A) = NumCols(B)

ColumnSum(A, j) == Total(Column(A, j), NumRows(A))

\* C12: for an n x d matrix with n > 1, the centering step of cell 3 yields a
\* matrix of the same shape in which every column sums to 0.
C12_CenteredColumns ==
    (pc # "cell3" /\ NumRows(X_std) > 1) =>
        /\ SameShape(X_sm, X_std)
        /\ \A j \in 1..NumCols(X_sm) : ColumnSum(X_sm, j) = Zero

C12_Witness ==
    /\ pc = "cell5"
    /\ NumRows(X_std) = 3
    /\ NumCols(X_std) = 2
    /\ X_sm # X_std
    /\ \E i \in 1..3 : RLt(X_sm[i][1], Zero)
    /\ ColumnSum(X_sm, 1) = Zero

\* C18: centering is idempotent: centering the centered matrix of cell 3
\* returns it unchanged, for every n x d matrix with n >= 1.
C18_CenteringIdempotent ==
    (pc # "cell3") =>
        broadcast_sub(X_sm, np_mean_axis0(X_sm)) = X_sm

C18_Witness ==
    /\ pc = "cell5"
    /\ NumRows(X_std) = 2
    /\ X_sm # X_std
    /\ \E i \in 1..2, j \in 1..NumCols(X_sm) : X_sm[i][j] # Zero
    /\ broadcast_sub(X_sm, np_mean_axis0(X_sm)) = X_sm

(* ------------------------- the covariance matrix ----------------------- *)
\* C13 as stated: with n <= 1 rows the covariance step fails with a
\* precondition error and no d x d matrix flows on to the eigendecomposition.
C13_PreconditionError ==
    (NumRows(X_std) <= 1 /\ pc \notin {"cell3", "cell5"}) =>
        /\ err = "PreconditionError"
        /\ X_cov = <<>>

\* C19: for an n x d matrix with n > 1, X_cov is a d x d matrix, symmetric,
\* with non-negative diagonal entries.
C19_CovarianceSymmetric ==
    (NumRows(X_std) > 1 /\ pc \notin {"cell3", "cell5"}) =>
        /\ NumRows(X_cov) = NumCols(X_sm)
        /\ NumCols(X_cov) = NumCols(X_sm)
        /\ \A i, j \in 1..NumCols(X_sm) : X_cov[i][j] = X_cov[j][i]
        /\ \A i \in 1..NumCols(X_sm) : RGeq(X_cov[i][i], Zero)

C19_Witness ==
    /\ pc = "cell5eig"
    /\ NumRows(X_std) = 3
    /\ NumCols(X_std) = 2
    /\ RLt(X_cov[1][2], Zero)
    /\ X_cov[1][2] = X_cov[2][1]
    /\ RLt(Zero, X_cov[1][1])
    /\ RLt(Zero, X_cov[2][2])

(* ----------------------- the two paths to a profile -------------------- *)
AfterSvd == pc \in {"cell15", "cell16", "done"}

\* the profile of s**2/(n-1) for the singular values held in s_svd
SvdProfile == percvar(ScaledSquares(s_svd, NumRows(X_sm)))

\* C15 as stated: for every centered matrix with n > 1, percvar of the
\* eigenvalues of X_cov equals percvar of s**2/(n-1).
C15_PathsAgreeAsStated ==
    (AfterSvd /\ NumRows(X_sm) > 1) => SvdProfile = <<pct, pv>>

\* C15: for a centered matrix with n > 1, n >= d and a nonzero eigenvalue,
\* percvar of the eigenvalues of X_cov equals percvar of s**2/(n-1), where s
\* are the singular values of the matrix.
C15_PathsAgree ==
    (/\ AfterSvd
     /\ NumRows(X_sm) > 1
     /\ NumRows(X_sm) >= NumCols(X_sm)
     /\ HasNonzero(eig_vals)) => SvdProfile = <<pct, pv>>

C15_Witness ==
    /\ AfterSvd
    /\ NumRows(X_sm) = 3
    /\ NumCols(X_sm) = 2
    /\ TwoDistinctNonzero(eig_vals)
    /\ RLt(eig_vals[1], eig_vals[2])
    /\ \E i \in 1..Len(s_svd) : "rad" \in DOMAIN s_svd[i]
    /\ SvdProfile = <<pct, pv>>

\* C16 as stated: the vector passed to percvar in cell 16 is s**2/(n-1) for the
\* singular values s of cell 13, and pct2, pv2 are its profile.
C16_ProfileFromSingularValues ==
    /\ (pc \in {"cell16", "done"}) =>
           eig_vals_svd = ScaledSquares(s_svd, NumRows(X_sm))
    /\ (pc = "done") => <<pct2, pv2>> = SvdProfile

C21_Composition ==
    (/\ pc = "perck"
     /\ perck_s = pv
     /\ HasNonzero(eig_vals)
     /\ RLeq(perck_p, One)) =>
        /\ Satisfiable(pv, perck_p)
        /\ perck_ret \in 0..(Len(eig_vals) - 1)
        /\ RGeq(pv[perck_ret + 1], perck_p)
        /\ \A j \in 1..perck_ret : RLt(pv[j], perck_p)
        /\ \A q \in Thresholds :
               (RLeq(perck_p, q) /\ RLeq(q, One)) => perck_ret <= perck(pv, q)

C21_Witness ==
    /\ pc = "perck"
    /\ perck_s = pv
    /\ Len(eig_vals) = MaxLen
    /\ HasNonzero(eig_vals)
    /\ perck_p = One
    /\ perck_ret = MaxLen - 1
    /\ RLt(pv[MaxLen - 1], One)
    /\ \E q \in Thresholds : RLt(q, One) /\ perck(pv, q) < perck_ret
====
